---------------------------- MODULE Spec2Model ----------------------------
(***************************************************************************)
(* Model of dso-data-schema-randomizer (src/main.py).                      *)
(*                                                                         *)
(* The program reads one document (JSON, XML or CSV), replaces every name  *)
(* and leaf value by a value drawn from Faker, and writes the result.      *)
(* The model covers main(), DataSchemaRandomizer.__init__, process_data    *)
(* and the three randomize_*_schema methods.                               *)
(*                                                                         *)
(* Faker is the only source of nondeterminism inside a transform.  It is   *)
(* modelled by a finite stream of draws (rnd); each fake.word() call       *)
(* consumes the head of the stream and turns the draw into a word.         *)
(***************************************************************************)
EXTENDS Integers, Sequences, FiniteSets, TLC

\* ------------------------------------------------------------------ bounds
NumDraws == 2          \* distinct words fake.word() can return
MaxJsonNodes == 3      \* nodes (scalars, lists, mappings) of a JSON input
MaxXmlNodes == 3       \* elements of an XML input
MaxCsvLen == 4         \* characters of a CSV input

Draws == 1..NumDraws

\* Python's None, for the optional strings of the model (text, tail, paths).
None == "<None>"

\* ------------------------------------------------------------ Faker (l.31)
\* fake.word() turns one draw into a word.  The numbers and booleans Faker
\* returns are kept as one abstract value per kind: the program stores them
\* and never looks at them again.
fake_word(d) == "w" \o ToString(d)
fake_random_int == "<int>"
fake_pyfloat == "<float>"
fake_boolean == "<bool>"

\* ------------------------------------------------------------ JSON values
\* A parsed JSON value: k is the runtime kind, s the scalar payload, and for
\* a list c holds the items; for a dict keys[i] maps to c[i], in insertion
\* order, the keys being pairwise distinct.
JsonValue(k, s, keys, c) == [k |-> k, s |-> s, keys |-> keys, c |-> c]
JStr(s) == JsonValue("str", s, <<>>, <<>>)
JInt(s) == JsonValue("int", s, <<>>, <<>>)
JFloat(s) == JsonValue("float", s, <<>>, <<>>)
JBool(s) == JsonValue("bool", s, <<>>, <<>>)
JNull == JsonValue("null", "null", <<>>, <<>>)
JList(c) == JsonValue("list", "", <<>>, c)
JDict(keys, c) == JsonValue("dict", "", keys, c)
\* A variable no document has been bound to yet.
Unset == JsonValue("unset", "", <<>>, <<>>)

\* Position of key in keys, 0 when absent.
KeyIndex(keys, key) ==
    IF \E i \in 1..Len(keys) : keys[i] = key
    THEN CHOOSE i \in 1..Len(keys) : keys[i] = key
    ELSE 0

\* d[key] = val on a Python dict: an existing key keeps its position and
\* takes the new value, a new key is appended.
dict_setitem(d, key, val) ==
    LET i == KeyIndex(d.keys, key) IN
    IF i = 0
    THEN JDict(Append(d.keys, key), Append(d.c, val))
    ELSE JDict(d.keys, [d.c EXCEPT ![i] = val])

\* isinstance(value, int): bool is a subclass of int in Python.
isinstance_int(value) == value.k \in {"int", "bool"}

\* Variant of isinstance_dict that also lets a list through.
isinstance_dict_list == {"dict", "list"}
isinstance_dict_mut(value) == value.k \in isinstance_dict_list
\* isinstance(input_data, dict)
isinstance_dict(value) == value.k = "dict"

RECURSIVE randomize_json_schema(_, _)
RECURSIVE randomize_value(_, _)
RECURSIVE randomize_list(_, _, _)
RECURSIVE randomize_items(_, _, _, _)

\* [randomize_value(item) for item in value]
randomize_list(items, acc, rnd) ==
    IF items = <<>>
    THEN [v |-> JList(acc), rnd |-> rnd]
    ELSE LET r == randomize_value(Head(items), rnd)
         IN randomize_list(Tail(items), Append(acc, r.v), r.rnd)

randomize_value(value, rnd) ==
    IF value.k = "str"
    THEN [v |-> JStr(fake_word(Head(rnd))), rnd |-> Tail(rnd)]
    ELSE IF isinstance_int(value)
    THEN [v |-> JInt(fake_random_int), rnd |-> rnd]
    ELSE IF value.k = "float"
    THEN [v |-> JFloat(fake_pyfloat), rnd |-> rnd]
    ELSE IF value.k = "bool"
    THEN [v |-> JBool(fake_boolean), rnd |-> rnd]
    ELSE IF value.k = "list"
    THEN randomize_list(value.c, <<>>, rnd)
    ELSE IF value.k = "dict"
    THEN LET r == randomize_json_schema(value, rnd)
         IN [v |-> r.result, rnd |-> r.rnd]
    ELSE [v |-> JNull, rnd |-> rnd]

\* The loop of lines 69-70.  Python evaluates the right-hand side
\* (randomize_value) before the subscript (fake.word()).
randomize_items(keys, vals, randomized_data, rnd) ==
    IF keys = <<>>
    THEN [raised |-> FALSE, result |-> randomized_data, rnd |-> rnd]
    ELSE LET r == randomize_value(Head(vals), rnd)
             key == fake_word(Head(r.rnd))
         IN randomize_items(Tail(keys), Tail(vals),
                            dict_setitem(randomized_data, key, r.v),
                            Tail(r.rnd))

\* raised = TRUE stands for the TypeError of line 49.
randomize_json_schema(input_data, rnd) ==
    IF ~isinstance_dict(input_data)
    THEN [raised |-> TRUE, result |-> JNull, rnd |-> rnd]
    ELSE randomize_items(input_data.keys, input_data.c, JDict(<<>>, <<>>), rnd)

\* Number of fake.word() calls randomize_json_schema / randomize_value make.
RECURSIVE JsonCalls(_)
RECURSIVE JsonCallsSeq(_)
JsonCallsSeq(vals) ==
    IF vals = <<>> THEN 0 ELSE JsonCalls(Head(vals)) + JsonCallsSeq(Tail(vals))
JsonCalls(value) ==
    IF value.k = "str" THEN 1
    ELSE IF value.k = "list" THEN JsonCallsSeq(value.c)
    ELSE IF value.k = "dict" THEN Len(value.keys) + JsonCallsSeq(value.c)
    ELSE 0

\* ------------------------------------------------------ JSON input universe
JsonScalars == {JStr("Alice"), JInt("30"), JFloat("1.5"), JBool("true"), JNull}

\* The keys of an input mapping, by position (json.loads yields distinct keys).
InputKey(i) == "k" \o ToString(i)
InputKeys(n) == [i \in 1..n |-> InputKey(i)]

RECURSIVE JsonOfSize(_)
RECURSIVE JsonForests(_)
\* Sequences of values whose sizes add up to m.
JsonForests(m) ==
    IF m = 0
    THEN {<<>>}
    ELSE UNION {{<<t>> \o f : t \in JsonOfSize(j), f \in JsonForests(m - j)} :
                j \in 1..m}
\* Values made of exactly n nodes.
JsonOfSize(n) ==
    (IF n = 1 THEN JsonScalars ELSE {})
    \cup {JList(f) : f \in JsonForests(n - 1)}
    \cup {JDict(InputKeys(Len(f)), f) : f \in JsonForests(n - 1)}

JsonDocs == UNION {JsonOfSize(n) : n \in 1..MaxJsonNodes}

Streams(n) == [1..n -> Draws]

\* ------------------------------------------------------------ XML elements
\* An xml.etree Element: text and tail are None or a string, attrib is the
\* sequence of its (name, value) pairs, c the ordered child elements.
Element(tag, text, attrib, tail, c) ==
    [tag |-> tag, text |-> text, attrib |-> attrib, tail |-> tail, c |-> c]

\* Variant of truthy that sets a text on every element.
truthy_mut(text) == TRUE
\* `if element.text`: None and the empty string are both false.
truthy(text) == text # None /\ text # ""

\* Variant of set_tag that builds a new element and forgets attrib and tail.
set_tag_mut(element, w) == Element(w, element.text, <<>>, None, element.c)
\* element.tag = w: the assignment leaves every other field alone.
set_tag(element, w) == [element EXCEPT !.tag = w]

set_text(element, w) == [element EXCEPT !.text = w]

RECURSIVE randomize_element(_, _)
RECURSIVE randomize_children(_, _, _)

\* for child in element: randomize_element(child)
randomize_children(children, acc, rnd) ==
    IF children = <<>>
    THEN [c |-> acc, rnd |-> rnd]
    ELSE LET r == randomize_element(Head(children), rnd)
         IN randomize_children(Tail(children), Append(acc, r.e), r.rnd)

\* Pre-order walk: tag, then text, then the children in document order.
randomize_element(element, rnd) ==
    LET e1 == set_tag(element, fake_word(Head(rnd)))
        r1 == Tail(rnd)
        e2 == IF truthy(e1.text) THEN set_text(e1, fake_word(Head(r1))) ELSE e1
        r2 == IF truthy(e1.text) THEN Tail(r1) ELSE r1
        rc == randomize_children(e2.c, <<>>, r2)
    IN [e |-> [e2 EXCEPT !.c = rc.c], rnd |-> rc.rnd]

\* ET.tostring(root, encoding='utf8'): the XML declaration, then every
\* element as start tag, text, children, end tag, tail.
Token(t, s, attrib) == [t |-> t, s |-> s, attrib |-> attrib]
has_chars(text) == text # None /\ text # ""
RECURSIVE serialize(_)
RECURSIVE serialize_all(_)
serialize_all(children) ==
    IF children = <<>> THEN <<>>
    ELSE serialize(Head(children)) \o serialize_all(Tail(children))
serialize(element) ==
    <<Token("start", element.tag, element.attrib)>>
    \o (IF has_chars(element.text) THEN <<Token("text", element.text, <<>>)>> ELSE <<>>)
    \o serialize_all(element.c)
    \o <<Token("end", element.tag, <<>>)>>
    \o (IF has_chars(element.tail) THEN <<Token("tail", element.tail, <<>>)>> ELSE <<>>)
tostring(root) == <<Token("decl", "utf8", <<>>)>> \o serialize(root)

\* Number of Faker calls randomize_element makes.
RECURSIVE XmlCalls(_)
RECURSIVE XmlCallsSeq(_)
XmlCallsSeq(children) ==
    IF children = <<>> THEN 0 ELSE XmlCalls(Head(children)) + XmlCallsSeq(Tail(children))
XmlCalls(element) ==
    1 + (IF truthy(element.text) THEN 1 ELSE 0) + XmlCallsSeq(element.c)

\* ------------------------------------------------------- XML input universe
\* What ET.fromstring can return: the parser never yields an empty text or
\* tail (only None or a non-empty string), and the root has no tail.
Attr(name, value) == [name |-> name, value |-> value]
NoAttrib == <<>>
ChildVariants ==
    {Element("item", None, <<Attr("id", "7")>>, "after", <<>>),
     Element("item", "secret", NoAttrib, None, <<>>)}
RootVariants ==
    {Element("root", None, NoAttrib, None, <<>>),
     Element("root", "secret", <<Attr("id", "7")>>, None, <<>>)}

RECURSIVE XmlOfSize(_, _)
RECURSIVE XmlForests(_)
XmlForests(m) ==
    IF m = 0
    THEN {<<>>}
    ELSE UNION {{<<t>> \o f : t \in XmlOfSize(ChildVariants, j),
                              f \in XmlForests(m - j)} : j \in 1..m}
\* Trees of exactly n elements whose top element is one of variants.
XmlOfSize(variants, n) ==
    {[v EXCEPT !.c = f] : v \in variants, f \in XmlForests(n - 1)}

XmlDocs == UNION {XmlOfSize(RootVariants, n) : n \in 1..MaxXmlNodes}

\* -------------------------------------------------------------------- CSV
\* A text is a sequence of characters; a generated word is one character of
\* the output text (Faker words hold no comma and no line break).
NL == "\n"
COMMA == ","

\* str.splitlines(): the pieces between line breaks, no empty last piece.
RECURSIVE splitlines_from(_, _)
splitlines_from(text, line) ==
    IF text = <<>>
    THEN IF line = <<>> THEN <<>> ELSE <<line>>
    ELSE IF Head(text) = NL
    THEN <<line>> \o splitlines_from(Tail(text), <<>>)
    ELSE splitlines_from(Tail(text), Append(line, Head(text)))
splitlines(text) == splitlines_from(text, <<>>)

\* One line through csv.reader (no quote characters in the alphabet): an
\* empty line is the empty row, otherwise the fields between the commas.
RECURSIVE split_fields(_, _)
split_fields(line, field) ==
    IF line = <<>>
    THEN <<field>>
    ELSE IF Head(line) = COMMA
    THEN <<field>> \o split_fields(Tail(line), <<>>)
    ELSE split_fields(Tail(line), Append(field, Head(line)))
csv_row(line) == IF line = <<>> THEN <<>> ELSE split_fields(line, <<>>)
csv_reader(lines) == [i \in 1..Len(lines) |-> csv_row(lines[i])]

\* [self.fake.word() for _ in row], on the draws rnd[from+1 .. from+Len(row)]
random_row(row, rnd, from) == [i \in 1..Len(row) |-> fake_word(rnd[from + i])]

\* ",".join(row)
RECURSIVE join(_)
join(row) ==
    IF row = <<>> THEN <<>>
    ELSE IF Len(row) = 1 THEN <<Head(row)>>
    ELSE <<Head(row), COMMA>> \o join(Tail(row))

RECURSIVE CellsBefore(_, _)
CellsBefore(rows, i) == IF i <= 1 THEN 0 ELSE Len(rows[i - 1]) + CellsBefore(rows, i - 1)
CsvCalls(rows) == CellsBefore(rows, Len(rows) + 1)

\* Variant of emit_rows that skips the rows without cells.
RECURSIVE emit_rows_mut(_)
emit_rows_mut(rows) ==
    IF rows = <<>> THEN <<>>
    ELSE IF Head(rows) = <<>> THEN emit_rows_mut(Tail(rows))
    ELSE join(Head(rows)) \o <<NL>> \o emit_rows_mut(Tail(rows))

RECURSIVE emit_rows(_)
emit_rows(rows) ==
    IF rows = <<>> THEN <<>>
    ELSE join(Head(rows)) \o <<NL>> \o emit_rows(Tail(rows))

\* The header and the other rows are replaced the same way (lines 122-128).
randomize_csv_schema(input_csv, rnd) ==
    LET rows == csv_reader(splitlines(input_csv)) IN
    IF rows = <<>>
    THEN <<>>
    ELSE emit_rows([i \in 1..Len(rows) |->
                        random_row(rows[i], rnd, CellsBefore(rows, i))])

CsvChars == {"a", COMMA, NL}
CsvTexts == UNION {[1..n -> CsvChars] : n \in 0..MaxCsvLen}

\* json.dumps(randomized_data, indent=4), as the sequence of its tokens.
Quoted(s) == "\"" \o s \o "\""
RECURSIVE json_dumps(_)
RECURSIVE dumps_items(_, _, _)
dumps_items(keys, vals, i) ==
    IF i > Len(vals) THEN <<>>
    ELSE (IF i > 1 THEN <<",">> ELSE <<>>)
         \o (IF keys = <<>> THEN <<>> ELSE <<Quoted(keys[i]), ":">>)
         \o json_dumps(vals[i])
         \o dumps_items(keys, vals, i + 1)
json_dumps(value) ==
    IF value.k = "str" THEN <<Quoted(value.s)>>
    ELSE IF value.k = "list" THEN <<"[">> \o dumps_items(<<>>, value.c, 1) \o <<"]">>
    ELSE IF value.k = "dict" THEN <<"{">> \o dumps_items(value.keys, value.c, 1) \o <<"}">>
    ELSE <<value.s>>

\* ------------------------------------------------------------ environment
\* Command-line / constructor arguments.
Formats == {"json", "xml", "csv"}
FormatArgs == Formats \cup {"JSON", "yaml"}
lower(s) == IF s = "JSON" THEN "json" ELSE s
Locales == {"en_US", "xx_XX"}
\* Faker(locale) raises for a locale it does not know.
FakerKnows(locale) == locale = "en_US"

\* The files of the run: in.dat is readable, locked.dat exists but cannot be
\* read, missing.dat does not exist; nodir/out.dat cannot be created.
InputPaths == {"", "in.dat", "locked.dat", "missing.dat"}
OutputPaths == {None, "out.dat", "nodir/out.dat"}
Exists(path) == path \in {"in.dat", "locked.dat"}
Readable(path) == path = "in.dat"
Creatable(path) == path = "out.dat"
\* `not self.input_file`, `if self.output_file`
falsy(path) == path = None \/ path = ""

\* What the file holds, as the parser of the chosen format sees it: ok is
\* FALSE for a text json.loads / ET.fromstring rejects.
Parsed(ok, doc) == [ok |-> ok, doc |-> doc]
Contents(fmt) ==
    IF fmt = "json" THEN {Parsed(TRUE, d) : d \in JsonDocs} \cup {Parsed(FALSE, JNull)}
    ELSE IF fmt = "xml"
    THEN {Parsed(TRUE, d) : d \in XmlDocs}
         \cup {Parsed(FALSE, Element("", None, NoAttrib, None, <<>>))}
    ELSE CsvTexts

\* Python class of each error kind, as main's except clauses see it
\* (json.JSONDecodeError is a subclass of ValueError).
ErrorClass(kind) ==
    IF kind \in {"UnsupportedFormat", "MissingInputFile", "DecodeError"} THEN "ValueError"
    ELSE IF kind = "FileNotFound" THEN "FileNotFoundError"
    ELSE "Exception"

LogEntry(level, line, kind) == [level |-> level, line |-> line, kind |-> kind]

VARIABLES
    pc,              \* position of the run
    entry,           \* "main": run from the command line; "api": the class used directly
    args,            \* what parse_args returned / the constructor arguments
    data_format, input_file, output_file,   \* the fields of the randomizer
    data,            \* the text read from the input file
    input_data,      \* the parsed document handed to the transform
    randomized_data, \* the document the transform returned
    rnd,             \* the Faker draws the last transform consumed
    output_data,     \* the serialised result
    out_file,        \* the output file on disk
    stdout,          \* what was printed
    log,             \* the logging records, in order
    exc,             \* the exception being propagated, or "none"
    stage,           \* the step of the run that raised
    run              \* how many times the JSON transform was applied

vars == <<pc, entry, args, data_format, input_file, output_file, data, input_data,
          randomized_data, rnd, output_data, out_file, stdout, log, exc, stage, run>>

NoArgs == [data_format |-> "", input_file |-> "", output_file |-> None, locale |-> ""]
NoFile == [exists |-> FALSE, content |-> <<>>]

Init ==
    /\ pc = "start"
    /\ entry = "none"
    /\ args = NoArgs
    /\ data_format = ""
    /\ input_file = None
    /\ output_file = None
    /\ data = <<>>
    /\ input_data = Unset
    /\ randomized_data = Unset
    /\ rnd = <<>>
    /\ output_data = <<>>
    /\ out_file = NoFile
    /\ stdout = <<>>
    /\ log = <<>>
    /\ exc = "none"
    /\ stage = "none"
    /\ run = 0

\* raise: the exception leaves the current function.
Raise(kind, at, entries) ==
    /\ pc' = "raised"
    /\ exc' = kind
    /\ stage' = at
    /\ log' = log \o entries

\* main, lines 207-208: argparse rejects a format outside its choices and
\* exits before the randomizer is built.
parse_args ==
    /\ pc = "start"
    /\ \E f \in FormatArgs, i \in InputPaths, o \in OutputPaths, l \in Locales :
          /\ args' = [data_format |-> f, input_file |-> i, output_file |-> o, locale |-> l]
          /\ pc' = IF f \in Formats THEN "parsed" ELSE "usage_exit"
    /\ entry' = "main"
    /\ UNCHANGED <<data_format, input_file, output_file, data, input_data,
                   randomized_data, rnd, output_data, out_file, stdout, log, exc,
                   stage, run>>

\* The log records __init__ writes when it rejects the format: none.
init_log(fmt) == <<>>

\* DataSchemaRandomizer.__init__
construct(a) ==
    /\ data_format' = lower(a.data_format)
    /\ input_file' = a.input_file
    /\ output_file' = a.output_file
    /\ IF ~FakerKnows(a.locale)
       THEN Raise("LocaleError", "construct", <<>>)
       ELSE IF lower(a.data_format) \notin Formats
       THEN Raise("UnsupportedFormat", "construct", init_log(lower(a.data_format)))
       ELSE /\ pc' = "constructed"
            /\ UNCHANGED <<exc, stage, log>>
    /\ UNCHANGED <<data, input_data, randomized_data, rnd, output_data, out_file,
                   stdout, run>>

\* main, line 211
main_construct ==
    /\ pc = "parsed"
    /\ construct(args)
    /\ UNCHANGED <<entry, args>>

\* The class built by a caller other than main, input_file and output_file
\* left at their default (line 18).
api_construct ==
    /\ pc = "start"
    /\ \E f \in FormatArgs, l \in Locales :
          construct([data_format |-> f, input_file |-> None, output_file |-> None,
                     locale |-> l])
    /\ entry' = "api"
    /\ UNCHANGED args

\* Variant of reaches_write that writes whether or not the transform raised.
reaches_write_mut(failed) == TRUE
\* Lines 171-177 close the try block: they are reached only when no
\* statement before them raised.
reaches_write(failed) == ~failed

\* What lines 160-169 yield for one input: the exception raised (failed,
\* kind, at, entries: the records logged on the way out of process_data) or
\* the parsed input, the randomized document, the draws used and the
\* serialised text.
Outcome(failed, kind, at, entries, input, result, draws, text, n) ==
    [failed |-> failed, kind |-> kind, at |-> at, entries |-> entries,
     input |-> input, result |-> result, draws |-> draws, text |-> text, n |-> n]
Failure(kind, at, entries, input) ==
    Outcome(TRUE, kind, at, entries, input, randomized_data, rnd, output_data, run)

\* process_data, lines 145-157: the reasons the input cannot be read.
read_error ==
    IF falsy(input_file) THEN "MissingInputFile"
    ELSE IF ~Exists(input_file) THEN "FileNotFound"
    ELSE IF ~Readable(input_file) THEN "ReadError"
    ELSE "none"
read_log_line == IF falsy(input_file) THEN 146 ELSE IF ~Exists(input_file) THEN 153 ELSE 156

\* process_data from line 159 on, o being the outcome of lines 160-169: the
\* result goes to the output file or is printed, and a file that cannot be
\* opened raises into the handler of line 182.
process_data_finish(o) ==
    LET write == reaches_write(o.failed)
        toFile == write /\ ~falsy(output_file) /\ Creatable(output_file)
        cannot == write /\ ~falsy(output_file) /\ ~Creatable(output_file)
        print == write /\ falsy(output_file)
    IN /\ out_file' = IF toFile THEN [exists |-> TRUE, content |-> o.text] ELSE out_file
       /\ stdout' = IF print THEN Append(stdout, o.text) ELSE stdout
       /\ IF o.failed
          THEN Raise(o.kind, o.at, o.entries)
          ELSE IF cannot
          THEN Raise("WriteError", "write",
                     o.entries \o <<LogEntry("ERROR", 183, "WriteError")>>)
          ELSE /\ pc' = "done"
               /\ log' = log \o o.entries
                         \o <<LogEntry("INFO", IF print THEN 177 ELSE 174, "output")>>
               /\ UNCHANGED <<exc, stage>>
       /\ input_data' = o.input
       /\ randomized_data' = o.result
       /\ rnd' = o.draws
       /\ output_data' = o.text
       /\ run' = o.n

\* Lines 160-163 with the handlers of lines 179-184.
json_outcomes(content) ==
    IF ~content.ok
    THEN {Failure("DecodeError", "parse",
                  <<LogEntry("ERROR", 180, "DecodeError")>>, input_data)}
    ELSE {LET r == randomize_json_schema(content.doc, draws) IN
          IF r.raised
          THEN Failure("InvalidInputType", "transform",
                       <<LogEntry("ERROR", 48, "InvalidInputType"),
                         LogEntry("ERROR", 183, "InvalidInputType")>>, content.doc)
          ELSE Outcome(FALSE, "none", "none", <<>>, content.doc, r.result, draws,
                       json_dumps(r.result), 1)
          : draws \in Streams(JsonCalls(content.doc))}

\* Line 165 and randomize_xml_schema, lines 84-99.
xml_outcomes(content) ==
    IF ~content.ok
    THEN {Failure("ParseError", "parse",
                  <<LogEntry("ERROR", 87, "ParseError"),
                    LogEntry("ERROR", 183, "ParseError")>>, input_data)}
    ELSE {LET r == randomize_element(content.doc, draws) IN
          Outcome(FALSE, "none", "none", <<>>, content.doc, r.e, draws,
                  tostring(r.e), run)
          : draws \in Streams(XmlCalls(content.doc))}

\* Line 167 and randomize_csv_schema, lines 112-133.
csv_outcomes(content) ==
    LET rows == csv_reader(splitlines(content)) IN
    {Outcome(FALSE, "none", "none",
             IF rows = <<>> THEN <<LogEntry("WARNING", 116, "EmptyInput")>> ELSE <<>>,
             rows, randomized_data, draws, randomize_csv_schema(content, draws), run)
     : draws \in Streams(CsvCalls(rows))}

\* The dispatch of lines 160-169 (the else branch of line 168 cannot be
\* taken: __init__ admits the three formats only).
outcomes(fmt, content) ==
    IF fmt = "json" THEN json_outcomes(content)
    ELSE IF fmt = "xml" THEN xml_outcomes(content)
    ELSE csv_outcomes(content)

\* process_data: the file is read, handed to the transform of the format
\* and the result written.
process_data(fmt) ==
    /\ pc = "constructed"
    /\ data_format = fmt
    /\ IF read_error # "none"
       THEN /\ Raise(read_error, "read", <<LogEntry("ERROR", read_log_line, read_error)>>)
            /\ UNCHANGED <<data, input_data, randomized_data, rnd, output_data,
                           out_file, stdout, run>>
       ELSE \E content \in Contents(data_format) :
               /\ data' = content
               /\ \E o \in outcomes(fmt, content) : process_data_finish(o)
    /\ UNCHANGED <<entry, args, data_format, input_file, output_file>>

process_data_json == process_data("json")
process_data_xml == process_data("xml")
process_data_csv == process_data("csv")

\* main, lines 213-218: the exception is logged and main returns.
main_except ==
    /\ pc = "raised"
    /\ entry = "main"
    /\ log' = Append(log,
                     LogEntry("ERROR",
                              IF ErrorClass(exc) = "ValueError" THEN 214
                              ELSE IF ErrorClass(exc) = "FileNotFoundError" THEN 216
                              ELSE 218,
                              exc))
    /\ pc' = "terminated"
    /\ UNCHANGED <<entry, args, data_format, input_file, output_file, data, input_data,
                   randomized_data, rnd, output_data, out_file, stdout, exc, stage, run>>

\* randomize_json_schema(doc) called by a caller that holds the randomizer.
call_randomize_json(doc) ==
    /\ entry = "api"
    /\ data_format = "json"
    /\ input_data' = doc
    /\ \E draws \in Streams(JsonCalls(doc)) :
          LET r == randomize_json_schema(doc, draws) IN
          IF r.raised
          THEN /\ Raise("InvalidInputType", "transform",
                        <<LogEntry("ERROR", 48, "InvalidInputType")>>)
               /\ UNCHANGED <<randomized_data, rnd, run>>
          ELSE /\ randomized_data' = r.result
               /\ rnd' = draws
               /\ run' = run + 1
               /\ pc' = "returned"
               /\ UNCHANGED <<exc, stage, log>>
    /\ UNCHANGED <<entry, args, data_format, input_file, output_file, data,
                   output_data, out_file, stdout>>

\* The first call, on a parsed document.
api_randomize_json ==
    /\ pc = "constructed"
    /\ \E doc \in JsonDocs : call_randomize_json(doc)

\* The output of the previous call fed back in.
api_randomize_json_again ==
    /\ pc = "returned"
    /\ run = 1
    /\ call_randomize_json(randomized_data)

Next ==
    \/ parse_args
    \/ main_construct
    \/ api_construct
    \/ process_data_json
    \/ process_data_xml
    \/ process_data_csv
    \/ main_except
    \/ api_randomize_json

Spec == Init /\ [][Next]_vars

\* The runs of Spec, and those where the caller randomizes the result again.
NextRoundTrip == Next \/ api_randomize_json_again
SpecRoundTrip == Init /\ [][NextRoundTrip]_vars

TypeOK ==
    /\ pc \in {"start", "parsed", "usage_exit", "constructed", "done", "returned",
               "raised", "terminated"}
    /\ entry \in {"none", "main", "api"}
    /\ run \in 0..2
\* ------------------------------------------------------------- properties
\* The JSON transform returned: input_data is what it was given,
\* randomized_data what it returned, rnd the draws it consumed.
JsonApplied == data_format = "json" /\ run >= 1
\* The transform of process_data completed (the write may still fail).
Transformed == pc = "done" \/ stage = "write"

\* C1: the mapping randomize_json_schema returns has as many top-level keys
\* as the mapping it was given, whatever words Faker returns.
C1_SameKeyCount ==
    JsonApplied => Len(randomized_data.keys) = Len(input_data.keys)

\* The kind the specification assigns to the replacement of a value.
ExpectedKind(k) == IF k \in {"str", "int", "float", "bool", "list", "dict"} THEN k ELSE "null"
RECURSIVE KindMatch(_, _)
KindMatch(in, out) ==
    /\ out.k = ExpectedKind(in.k)
    /\ in.k = "list" =>
          /\ Len(out.c) = Len(in.c)
          /\ \A i \in 1..Len(in.c) : KindMatch(in.c[i], out.c[i])
    /\ (in.k = "dict" /\ Len(out.c) = Len(in.c)) =>
          \A i \in 1..Len(in.c) : KindMatch(in.c[i], out.c[i])

\* C2: every value is replaced by a value of its own kind (string by word,
\* integer by integer, float by float, boolean by boolean, null by no
\* value); entries are compared where no key was lost, so that position i
\* of the output is the replacement of position i of the input.
C2_KindPreserved ==
    JsonApplied => KindMatch(input_data, randomized_data)

\* Draws consumed before the value of entry i of a mapping / item i of a list.
RECURSIVE CallsBefore(_, _, _)
CallsBefore(vals, i, perEntry) ==
    IF i <= 1 THEN 0
    ELSE JsonCalls(vals[i - 1]) + perEntry + CallsBefore(vals, i - 1, perEntry)

\* out is the replacement of in, the transform having started at draw
\* off + 1: every list is a list of the same length, item by item, and
\* every entry of a mapping is found under the key generated for it.
RECURSIVE ListsKept(_, _, _, _)
ListsKept(in, out, draws, off) ==
    IF in.k = "list"
    THEN /\ out.k = "list"
         /\ Len(out.c) = Len(in.c)
         /\ \A i \in 1..Len(in.c) :
               ListsKept(in.c[i], out.c[i], draws, off + CallsBefore(in.c, i, 0))
    ELSE IF in.k = "dict"
    THEN /\ out.k = "dict"
         /\ \A i \in 1..Len(in.c) :
               LET o == off + CallsBefore(in.c, i, 1)
                   key == fake_word(draws[o + JsonCalls(in.c[i]) + 1])
                   j == KeyIndex(out.keys, key)
               IN j # 0 /\ ListsKept(in.c[i], out.c[j], draws, o)
    ELSE TRUE

\* C3: every list nested at any depth of the input mapping has, at the
\* corresponding place of the output, a list of the same length whose item
\* i is the replacement of item i.
C3_ListsPreserved ==
    JsonApplied => ListsKept(input_data, randomized_data, rnd, 0)

\* Nesting, number of keys and list lengths of a value.
RECURSIVE Shape(_)
Shape(v) ==
    IF v.k \in {"list", "dict"}
    THEN [k |-> v.k, c |-> [i \in 1..Len(v.c) |-> Shape(v.c[i])]]
    ELSE [k |-> "leaf", c |-> <<>>]

\* C9: randomizing the output of randomize_json_schema again raises nothing
\* and returns a value of the same shape as the first output.
C9_RoundTripShape ==
    (JsonApplied /\ run >= 2) =>
        /\ exc = "none"
        /\ Shape(randomized_data) = Shape(input_data)

\* C8: randomize_json_schema given a value that is not a mapping raises the
\* TypeError and returns nothing; inside process_data the error leaves
\* process_data, nothing being serialised, written or printed.
C8_NonMappingRaises ==
    (data_format = "json" /\ input_data.k \notin {"unset", "dict"}) =>
        /\ exc = "InvalidInputType"
        /\ pc \in {"raised", "terminated"}
        /\ run = 0
        /\ randomized_data = Unset
        /\ output_data = <<>>
        /\ ~out_file.exists
        /\ stdout = <<>>
C8_Witness ==
    /\ data_format = "json"
    /\ entry = "main"
    /\ pc = "terminated"
    /\ input_data = JList(<<JInt("30"), JInt("30")>>)
    /\ exc = "InvalidInputType"

RECURSIVE CountElements(_)
RECURSIVE CountAll(_)
CountAll(children) ==
    IF children = <<>> THEN 0 ELSE CountElements(Head(children)) + CountAll(Tail(children))
CountElements(e) == 1 + CountAll(e.c)

\* Same tree shape, and no text where there was none.
RECURSIVE SameTree(_, _)
SameTree(in, out) ==
    /\ Len(out.c) = Len(in.c)
    /\ ~has_chars(in.text) => ~has_chars(out.text)
    /\ \A i \in 1..Len(in.c) : SameTree(in.c[i], out.c[i])

StartTags(tokens) == SelectSeq(tokens, LAMBDA t : t.t = "start")
TextTokens(tokens) == SelectSeq(tokens, LAMBDA t : t.t = "text")

\* C4: the tree randomize_xml_schema produces has as many elements as the
\* input tree, each with the same number of children at the same positions,
\* and an element without text in the input has no text in the output; the
\* serialised document has the same number of start tags and text nodes.
C4_XmlStructure ==
    (data_format = "xml" /\ Transformed) =>
        /\ CountElements(randomized_data) = CountElements(input_data)
        /\ SameTree(input_data, randomized_data)
        /\ Len(StartTags(output_data)) = CountElements(input_data)
        /\ Len(TextTokens(output_data)) = Len(TextTokens(tostring(input_data)))
C4_Witness ==
    /\ data_format = "xml"
    /\ pc = "done"
    /\ CountElements(input_data) = 3
    /\ Len(input_data.c) = 1
    /\ Len(input_data.c[1].c) = 1
    /\ has_chars(input_data.text)
    /\ ~has_chars(input_data.c[1].text)
    /\ randomized_data.tag # input_data.tag
    /\ ~has_chars(randomized_data.c[1].text)

\* Attributes and tail of every element, in document order.
RECURSIVE FrameOf(_)
RECURSIVE FrameOfAll(_)
FrameOfAll(children) ==
    IF children = <<>> THEN <<>> ELSE FrameOf(Head(children)) \o FrameOfAll(Tail(children))
FrameOf(e) == <<[attrib |-> e.attrib, tail |-> e.tail]>> \o FrameOfAll(e.c)
RECURSIVE TokenFrame(_)
TokenFrame(tokens) ==
    IF tokens = <<>> THEN <<>>
    ELSE (IF Head(tokens).t = "start"
          THEN <<[t |-> "start", s |-> "", attrib |-> Head(tokens).attrib]>>
          ELSE IF Head(tokens).t = "tail"
          THEN <<[t |-> "tail", s |-> Head(tokens).s, attrib |-> <<>>]>>
          ELSE <<>>)
         \o TokenFrame(Tail(tokens))

\* C10: the XML randomizer leaves the attributes (names and values) and the
\* tail text of every element as they were, in the tree and in the
\* serialised document.
C10_XmlFrame ==
    (data_format = "xml" /\ Transformed) =>
        /\ FrameOf(randomized_data) = FrameOf(input_data)
        /\ TokenFrame(output_data) = TokenFrame(tostring(input_data))
C10_Witness ==
    /\ data_format = "xml"
    /\ pc = "done"
    /\ out_file.exists
    /\ Len(input_data.c) = 2
    /\ input_data.attrib # NoAttrib
    /\ input_data.c[1].attrib # NoAttrib
    /\ has_chars(input_data.c[1].tail)
    /\ has_chars(input_data.c[2].text)
    /\ randomized_data.c[2].text # input_data.c[2].text
    /\ randomized_data.c[1].attrib = input_data.c[1].attrib
    /\ randomized_data.c[1].tail = input_data.c[1].tail

GeneratedWords == {fake_word(d) : d \in Draws}
Count(seq, ch) == Len(SelectSeq(seq, LAMBDA t : t = ch))
\* line is c generated words joined by commas.
IsJoinedRow(line, c) ==
    /\ Len(line) = (IF c = 0 THEN 0 ELSE 2 * c - 1)
    /\ \A j \in 1..Len(line) :
          IF j % 2 = 1 THEN line[j] \in GeneratedWords ELSE line[j] = COMMA

\* C5: for a CSV input of R rows with c_i cells in row i the result is R
\* newline-terminated rows in the same order, row i being c_i generated
\* words joined by commas; with R = 0 it is the empty text; nothing is raised.
C5_CsvRows ==
    (data_format = "csv" /\ Transformed) =>
        LET rows == csv_reader(splitlines(data))
            lines == splitlines(output_data)
        IN /\ input_data = rows
           /\ stage # "transform"
           /\ Count(output_data, NL) = Len(rows)
           /\ Len(lines) = Len(rows)
           /\ rows # <<>> => output_data[Len(output_data)] = NL
           /\ rows = <<>> => output_data = <<>>
           /\ \A i \in 1..Len(rows) : IsJoinedRow(lines[i], Len(rows[i]))
C5_Witness ==
    /\ data_format = "csv"
    /\ pc = "done"
    /\ Len(input_data) = 3
    /\ Len(input_data[1]) = 2
    /\ Len(input_data[2]) = 0
    /\ Len(input_data[3]) = 1
    /\ output_data = <<"w1", COMMA, "w2", NL, NL, "w1", NL>>

\* C6: when process_data fails while reading, parsing or transforming, the
\* output file is not created and nothing is printed; a result is written
\* or printed only once the whole transform has succeeded, and then it is
\* the complete serialised result.
C6_NoPartialOutput ==
    /\ (exc # "none" /\ stage \in {"read", "parse", "transform"}) =>
          (~out_file.exists /\ stdout = <<>>)
    /\ out_file.exists => (pc = "done" /\ exc = "none" /\ out_file.content = output_data)
    /\ stdout # <<>> => (pc = "done" /\ exc = "none" /\ stdout = <<output_data>>)
C6_Witness ==
    /\ entry = "main"
    /\ pc = "terminated"
    /\ data_format = "xml"
    /\ output_file = "out.dat"
    /\ exc = "ParseError"
    /\ stage = "parse"
    /\ ~out_file.exists

\* The error kinds of the specification, section 7.
SpecErrorKinds ==
    {"UnsupportedFormat", "MissingInputFile", "FileNotFound", "DecodeError",
     "ParseError", "InvalidInputType"}
LoggedAtDetection(kind) ==
    \E i \in 1..Len(log) :
        /\ log[i].kind = kind
        /\ log[i].level = "ERROR"
        /\ log[i].line \notin {214, 216, 218}

\* C7: every error kind is logged where it is detected and then raised up
\* to main, which logs it and terminates: a raised error of one of these
\* kinds has a log record from its point of detection, and under main the
\* run ends with main's own record last.
C7_LoggedAndPropagated ==
    (exc \in SpecErrorKinds) =>
        /\ LoggedAtDetection(exc)
        /\ pc \in {"raised", "terminated"}
        /\ (pc = "terminated") =>
              /\ log[Len(log)].kind = exc
              /\ log[Len(log)].line \in {214, 216, 218}
=============================================================================
